---- MODULE Spec2Model ----
(***************************************************************************)
(* Model of app.py, the MIS + multi-CDR analytics tool.                    *)
(*                                                                         *)
(* Strings whose characters matter (phone numbers) are sequences of        *)
(* one-character strings.  A table cell is Null (a missing value: pandas   *)
(* NaN / NaT) or Val(v), the one-element sequence holding its value.       *)
(***************************************************************************)
EXTENDS Integers, Sequences, FiniteSets, TLC

VARIABLES
    raw,                \* clean_phone: the cell handed to clean_phone
    key,                \* clean_phone: clean_phone(raw)
    rekey,              \* clean_phone: clean_phone applied to key again
    phase,              \* clean_phone: "raw" -> "clean" -> "reclean"
    mis,                \* the uploaded MIS file: [columns, rows]
    cdr_files,          \* the uploaded CDR files: a sequence of [columns, rows]
    selected_providers, \* the provider filter of this run
    pc,                 \* position of the script in this run
    steps,              \* the steps this run has performed, in order
    message,            \* the st.error / st.warning that stopped the run
    mis_filtered,       \* the filtered MIS rows with their phone key
    cdr,                \* the combined CDR table: [columns, rows]
    final,              \* the merged table
    output,             \* what the run displays: <<>> or <<[metrics, ...]>>
    presets,            \* the content of presets.json: name -> provider list
    preset_name_input,  \* the "Preset Name" text input
    preset_provider_input, \* the "Preset Providers" multiselect
    clicked,            \* the preset button pressed last
    notice              \* the st.warning / st.success of that press

phoneVars == <<raw, key, rekey, phase>>

runVars ==
    <<mis, cdr_files, selected_providers, pc, steps, message, mis_filtered,
      cdr, final, output>>

presetVars ==
    <<presets, preset_name_input, preset_provider_input, clicked, notice>>

vars == <<phoneVars, runVars, presetVars>>

(***************************************************************************)
(* Cells and characters                                                    *)
(***************************************************************************)
Digits == {"0", "1", "2", "3", "4", "5", "6", "7", "8", "9"}

Null == <<>>

Val(v) == <<v>>

\* series.astype(str): a missing value becomes the text "nan".
AsStr(cell) == IF cell = Null THEN <<"n", "a", "n">> ELSE cell[1]

(***************************************************************************)
(* clean_phone                                                             *)
(***************************************************************************)
PhoneLen == 10

\* Where the pattern \.0$ matches in s: "." then "0", then the end of the
\* string, or a newline that is the last character of the string ($ without
\* re.MULTILINE matches in both places).
DotZeroMatches(s) ==
    {i \in 1..(Len(s) - 1) :
        /\ s[i] = "."
        /\ s[i + 1] = "0"
        /\ \/ i + 1 = Len(s)
           \/ (i + 2 = Len(s) /\ s[i + 2] = "\n")}

\* .str.replace(r"\.0$", "", regex=True): every match is deleted.
StripFloatArtifact(s) ==
    [j \in 1..(Len(s) - 2 * Cardinality(DotZeroMatches(s))) |->
        IF \E i \in DotZeroMatches(s) : i <= j THEN s[j + 2] ELSE s[j]]

RECURSIVE RemoveNonDigits(_)
\* .str.replace(r"\D", "", regex=True)
RemoveNonDigits(s) ==
    IF s = <<>> THEN <<>>
    ELSE IF Head(s) \in Digits
         THEN <<Head(s)>> \o RemoveNonDigits(Tail(s))
         ELSE RemoveNonDigits(Tail(s))

\* A plausible slip: the first PhoneLen characters instead of the last.
SliceFirst(s) == IF Len(s) <= PhoneLen THEN s ELSE SubSeq(s, 1, PhoneLen)

\* .str[-10:]
SliceLast(s) ==
    IF Len(s) <= PhoneLen THEN s ELSE SubSeq(s, Len(s) - PhoneLen + 1, Len(s))

clean_phone(cell) == SliceLast(RemoveNonDigits(StripFloatArtifact(AsStr(cell))))

(***************************************************************************)
(* Tables                                                                  *)
(***************************************************************************)
Range(s) == {s[i] : i \in 1..Len(s)}

required_mis_cols ==
    <<"CorporateName", "RequestDate", "ContractName", "PatientName",
      "ApplicationId", "PolicyNo", "Gender", "RelationShip", "EmailId",
      "ContactNo", "NoOfReschedule", "ProviderName", "ProviderState">>

required_cdr_cols ==
    <<"Customer Number", "Call Status", "Disposition Name",
      "Call Start Date", "Call Start Time">>

\* The record field that holds a CDR column.
CdrField ==
    [c \in Range(required_cdr_cols) |->
        CASE c = "Customer Number" -> "Customer_Number"
          [] c = "Call Status" -> "Call_Status"
          [] c = "Disposition Name" -> "Disposition_Name"
          [] c = "Call Start Date" -> "Call_Start_Date"
          [] c = "Call Start Time" -> "Call_Start_Time"]

\* A plausible slip: the last missing column is reported.
LastMissing(required, columns) ==
    LET missing == {i \in 1..Len(required) : required[i] \notin columns}
    IN  IF missing = {} THEN <<>>
        ELSE <<required[CHOOSE i \in missing : \A j \in missing : j <= i]>>

\* for col in required: if col not in columns: ... st.stop()
\* <<>> when nothing is missing, else the first missing column.
FirstMissing(required, columns) ==
    LET missing == {i \in 1..Len(required) : required[i] \notin columns}
    IN  IF missing = {} THEN <<>>
        ELSE <<required[CHOOSE i \in missing : \A j \in missing : i <= j]>>

\* pd.concat(cdr_list, ignore_index=True): the columns are the union of the
\* files' columns, and a row has NaN in the columns its file lacks.
Widen(file, columns) ==
    [i \in 1..Len(file.rows) |->
        [f \in DOMAIN file.rows[i] |->
            IF \E c \in Range(required_cdr_cols) :
                   CdrField[c] = f /\ c \notin file.columns
            THEN Null
            ELSE file.rows[i][f]]]

RECURSIVE ConcatRows(_, _)
ConcatRows(files, columns) ==
    IF files = <<>> THEN <<>>
    ELSE Widen(Head(files), columns) \o ConcatRows(Tail(files), columns)

Concat(files) ==
    LET columns == UNION {files[i].columns : i \in 1..Len(files)}
    IN  [columns |-> columns, rows |-> ConcatRows(files, columns)]

(***************************************************************************)
(* Timestamps: pd.to_datetime(date + " " + time, errors="coerce")          *)
(***************************************************************************)
\* The day number of a date text the parser accepts, Null otherwise.
ParseDate(d) ==
    CASE d = "2024-01-01" -> Val(1)
      [] d = "2024-01-02" -> Val(2)
      [] OTHER -> Null

\* The minute of the day of a time text the parser accepts, Null otherwise.
ParseTime(t) ==
    CASE t = "10:00" -> Val(600)
      [] t = "11:00" -> Val(660)
      [] OTHER -> Null

\* astype(str) of a date or time cell: a missing value is the text "nan".
AsText(cell) == IF cell = Null THEN "nan" ELSE cell[1]

\* Minutes since the start of day 0, or Null (NaT) when the text does not
\* parse.
to_datetime(date, time) ==
    LET d == ParseDate(AsText(date))
        t == ParseTime(AsText(time))
    IN  IF d = Null \/ t = Null THEN Null ELSE Val(d[1] * 1440 + t[1])

(***************************************************************************)
(* The combined CDR table: lines 156-165                                   *)
(***************************************************************************)
\* cdr["phone"] = clean_phone(...); cdr["call_datetime"] = pd.to_datetime(...)
\* clean_phone returns text for every cell, so the phone cell is never Null.
Normalize(rows) ==
    [i \in 1..Len(rows) |->
        rows[i] @@
        [phone |-> Val(clean_phone(rows[i].Customer_Number)),
         call_datetime |->
            to_datetime(rows[i].Call_Start_Date, rows[i].Call_Start_Time)]]

NotNa(r) == r.phone # Null /\ r.call_datetime # Null

\* cdr.dropna(subset=["phone", "call_datetime"])
dropna(rows) == SelectSeq(rows, NotNa)

(***************************************************************************)
(* Analytics: lines 171-184                                                *)
(***************************************************************************)
DigitOrder == <<"0", "1", "2", "3", "4", "5", "6", "7", "8", "9">>

Rank(c) == CHOOSE i \in 1..Len(DigitOrder) : DigitOrder[i] = c

RECURSIVE TextLess(_, _)
\* a < b for two texts of digits, as Python compares strings
TextLess(a, b) ==
    IF b = <<>> THEN FALSE
    ELSE IF a = <<>> THEN TRUE
    ELSE IF Head(a) # Head(b) THEN Rank(Head(a)) < Rank(Head(b))
    ELSE TextLess(Tail(a), Tail(b))

RECURSIVE SortedKeys(_)
\* The group keys in the order groupby gives them (sort=True).
SortedKeys(S) ==
    IF S = {} THEN <<>>
    ELSE LET m == CHOOSE x \in S : \A y \in S : x = y \/ TextLess(x[1], y[1])
         IN  <<m>> \o SortedKeys(S \ {m})

GroupKeys(rows) == SortedKeys({rows[i].phone : i \in 1..Len(rows)})

GroupSize(rows, k) == Cardinality({i \in 1..Len(rows) : rows[i].phone = k})

GroupTimes(rows, k) ==
    {rows[i].call_datetime[1] : i \in {j \in 1..Len(rows) : rows[j].phone = k}}

SetMin(S) == CHOOSE x \in S : \A y \in S : x <= y

SetMax(S) == CHOOSE x \in S : \A y \in S : y <= x

\* cdr.groupby("phone").size().reset_index(name="Total_Attempts")
attempt_count(rows) ==
    LET keys == GroupKeys(rows)
    IN  [i \in 1..Len(keys) |->
            [phone |-> keys[i], Total_Attempts |-> Val(GroupSize(rows, keys[i]))]]

\* A plausible slip: the status compared without regard to case.
IsAnsweredAnyCase(r) == r.Call_Status \in {Val("Answered"), Val("answered")}

\* cdr["Call Status"] == "Answered"
IsAnswered(r) == r.Call_Status = Val("Answered")

\* cdr[cdr["Call Status"] == "Answered"].groupby("phone").size()
connected(rows) ==
    LET answered == SelectSeq(rows, IsAnswered)
        keys == GroupKeys(answered)
    IN  [i \in 1..Len(keys) |->
            [phone |-> keys[i],
             Connected_Attempts |-> Val(GroupSize(answered, keys[i]))]]

\* cdr.groupby("phone")["call_datetime"].min()
first_call(rows) ==
    LET keys == GroupKeys(rows)
    IN  [i \in 1..Len(keys) |->
            [phone |-> keys[i],
             First_Call_Date |-> Val(SetMin(GroupTimes(rows, keys[i])))]]

\* cdr.groupby("phone")["call_datetime"].max()
last_call_date(rows) ==
    LET keys == GroupKeys(rows)
    IN  [i \in 1..Len(keys) |->
            [phone |-> keys[i],
             Last_Call_Date |-> Val(SetMax(GroupTimes(rows, keys[i])))]]

Orders(n) == {p \in [1..n -> 1..n] : \A i, j \in 1..n : i # j => p[i] # p[j]}

\* A plausible slip: ascending=True.
SortedAscending(rows) ==
    {[i \in 1..Len(rows) |-> rows[p[i]]] : p \in
        {q \in Orders(Len(rows)) :
            \A i, j \in 1..Len(rows) :
                i < j => rows[q[i]].call_datetime[1] <= rows[q[j]].call_datetime[1]}}

\* cdr.sort_values("call_datetime", ascending=False): the sort is not stable
\* (kind="quicksort"), so rows with equal timestamps may come in any order.
\* The set of the orders the sort may produce.
cdr_sorted(rows) ==
    {[i \in 1..Len(rows) |-> rows[p[i]]] : p \in
        {q \in Orders(Len(rows)) :
            \A i, j \in 1..Len(rows) :
                i < j => rows[q[i]].call_datetime[1] >= rows[q[j]].call_datetime[1]}}

\* A plausible slip: no deduplication before the join.
KeepDuplicates(rows) == rows

\* drop_duplicates("phone"): the first row of each phone is kept.
drop_duplicates(rows) ==
    LET keep == {i \in 1..Len(rows) :
                    \A j \in 1..(i - 1) : rows[j].phone # rows[i].phone}
        nth(k) == CHOOSE i \in keep : Cardinality({j \in keep : j <= i}) = k
    IN  [k \in 1..Cardinality(keep) |-> rows[nth(k)]]

\* cdr_sorted.drop_duplicates("phone")[["phone","Disposition Name","Call Status"]]
last_disposition(sorted) ==
    LET kept == drop_duplicates(sorted)
    IN  [i \in 1..Len(kept) |->
            [phone |-> kept[i].phone,
             Disposition_Name |-> kept[i].Disposition_Name,
             Call_Status |-> kept[i].Call_Status]]

(***************************************************************************)
(* Merge: lines 187-198                                                    *)
(***************************************************************************)
RECURSIVE merge(_, _, _)
\* left.merge(right, on="phone", how="left"): every left row, in order, once
\* for each right row with its phone, or once with Null in the right columns
\* when there is none.
merge(left, right, columns) ==
    IF left = <<>> THEN <<>>
    ELSE LET l == Head(left)
             SamePhone(r) == r.phone = l.phone
             matches == SelectSeq(right, SamePhone)
             joined ==
                IF matches = <<>>
                THEN <<l @@ [c \in columns |-> Null]>>
                ELSE [i \in 1..Len(matches) |->
                        l @@ [c \in columns |-> matches[i][c]]]
         IN  joined \o merge(Tail(left), right, columns)

\* A plausible slip: Connected_Attempts left out of the fillna.
FillTotalOnly(row) ==
    [row EXCEPT !.Total_Attempts = IF @ = Null THEN Val(0) ELSE @]

\* A plausible slip: no fillna at all.
FillNothing(row) == row

\* final.fillna({"Total_Attempts": 0, "Connected_Attempts": 0})
fillna(row) ==
    [row EXCEPT !.Total_Attempts = IF @ = Null THEN Val(0) ELSE @,
                !.Connected_Attempts = IF @ = Null THEN Val(0) ELSE @]

\* a - b on two numeric cells: missing when either is missing
Minus(a, b) == IF a = Null \/ b = Null THEN Null ELSE Val(a[1] - b[1])

\* final["NotConnected_Attempts"] = final["Total_Attempts"] - final["Connected_Attempts"]
WithNotConnected(row) ==
    row @@ [NotConnected_Attempts |->
                Minus(row.Total_Attempts, row.Connected_Attempts)]

\* Lines 171-198 for one order of the sort.
Merged(leads, calls, sorted) ==
    LET m1 == merge(leads, attempt_count(calls), {"Total_Attempts"})
        m2 == merge(m1, connected(calls), {"Connected_Attempts"})
        m3 == merge(m2, first_call(calls), {"First_Call_Date"})
        m4 == merge(m3, last_call_date(calls), {"Last_Call_Date"})
        m5 == merge(m4, last_disposition(sorted),
                    {"Disposition_Name", "Call_Status"})
    IN  [i \in 1..Len(m5) |-> WithNotConnected(fillna(m5[i]))]

(***************************************************************************)
(* Inputs of the clean_phone specification: a short prefix, a run of       *)
(* digits, a short suffix.                                                 *)
(***************************************************************************)
MaxPre == 1
MaxRun == 11
MaxSuf == 3

Alphabet == {"0", ".", "-", "\n"}

StringsUpTo(n) == UNION {[1..k -> Alphabet] : k \in 0..n}

DigitChars == <<"1", "2", "3", "4", "5", "6", "7", "8", "9", "0">>

\* The digit run 1 2 3 ... of length n.
DigitRun(n) == [i \in 1..n |-> DigitChars[((i - 1) % 10) + 1]]

RawInputs ==
    {Val(p \o DigitRun(n) \o s) :
        p \in StringsUpTo(MaxPre), n \in 0..MaxRun, s \in StringsUpTo(MaxSuf)}
        \cup {Null}

\* No presets.json: load_presets returns {}.
NoPresets == [n \in {} |-> <<>>]

PresetIdle ==
    /\ presets = NoPresets
    /\ preset_name_input = <<>>
    /\ preset_provider_input = <<>>
    /\ clicked = "none"
    /\ notice = "none"

RunIdle ==
    /\ mis = [columns |-> {}, rows |-> <<>>]
    /\ cdr_files = <<>>
    /\ selected_providers = {}
    /\ pc = "idle"
    /\ steps = <<>>
    /\ message = <<>>
    /\ mis_filtered = <<>>
    /\ cdr = [columns |-> {}, rows |-> <<>>]
    /\ final = <<>>
    /\ output = <<>>

PhoneInit ==
    /\ RunIdle
    /\ PresetIdle
    /\ raw \in RawInputs
    /\ key = <<>>
    /\ rekey = <<>>
    /\ phase = "raw"

\* mis_filtered["phone"] = clean_phone(...) / cdr["phone"] = clean_phone(...)
Clean ==
    /\ phase = "raw"
    /\ key' = clean_phone(raw)
    /\ phase' = "clean"
    /\ UNCHANGED <<raw, rekey, runVars, presetVars>>

\* clean_phone applied to an already normalized key
Reclean ==
    /\ phase = "clean"
    /\ rekey' = clean_phone(Val(key))
    /\ phase' = "reclean"
    /\ UNCHANGED <<raw, key, runVars, presetVars>>

(***************************************************************************)
(* One run of the script on two uploaded inputs                            *)
(***************************************************************************)
MaxRows == 4

Providers == {"Acme", "Beta"}

RawPlus == <<"+", "9", "1", " ", "9", "8", "7", "6", "5", "-",
             "4", "3", "2", "1", "0">>

RawFloat == <<"9", "8", "7", "6", "5", "4", "3", "2", "1", "0", ".", "0">>

RawDash == <<"-">>

LeadChoices ==
    {[ProviderName |-> Val(p), ContactNo |-> c] :
        p \in Providers, c \in {Val(RawPlus), Val(RawDash)}}

Customers == <<Val(RawFloat), Val(RawDash), Null>>

Statuses == <<"Answered", "answered">>

Stamps ==
    <<<<"2024-01-01", "10:00">>, <<"2024-01-02", "11:00">>,
      <<"31-31-2024", "10:00">>>>

NumCallChoices == Len(Customers) * Len(Statuses) * Len(Stamps)

\* The call choices in a fixed order, to draw each bag of call rows once.
CallChoice(n) ==
    LET c == Customers[((n - 1) % Len(Customers)) + 1]
        s == Statuses[(((n - 1) \div Len(Customers)) % Len(Statuses)) + 1]
        t == Stamps[((n - 1) \div (Len(Customers) * Len(Statuses))) + 1]
    IN  [Customer_Number |-> c, Call_Status |-> Val(s),
         Call_Start_Date |-> Val(t[1]), Call_Start_Time |-> Val(t[2])]

RECURSIVE Ascending(_, _)
\* The non-decreasing sequences of k choice numbers, none below lo.
Ascending(k, lo) ==
    IF k = 0 THEN {<<>>}
    ELSE UNION {{<<i>> \o rest : rest \in Ascending(k - 1, i)} :
                    i \in lo..NumCallChoices}

\* Row i of the CDR input carries its own disposition name.
WithDisposition(rows) ==
    [i \in 1..Len(rows) |->
        rows[i] @@ [Disposition_Name |-> Val("D" \o ToString(i))]]

CallTables(n) ==
    UNION {{WithDisposition([i \in 1..k |-> CallChoice(q[i])]) :
              q \in Ascending(k, 1)} : k \in 0..n}

LeadTables(k) == [1..k -> LeadChoices]

\* The rows split over two uploaded files.
TwoFiles(rows, columns1, columns2) ==
    LET h == (Len(rows) + 1) \div 2
    IN  <<[columns |-> columns1, rows |-> SubSeq(rows, 1, h)],
          [columns |-> columns2, rows |-> SubSeq(rows, h + 1, Len(rows))]>>

SampleLeads == <<[ProviderName |-> Val("Acme"), ContactNo |-> Val(RawPlus)]>>

SampleCalls ==
    WithDisposition(
        <<[Customer_Number |-> Val(RawFloat), Call_Status |-> Val("Answered"),
           Call_Start_Date |-> Val("2024-01-01"),
           Call_Start_Time |-> Val("10:00")],
          [Customer_Number |-> Val(RawFloat), Call_Status |-> Val("No Answer"),
           Call_Start_Date |-> Val("2024-01-02"),
           Call_Start_Time |-> Val("11:00")]>>)

\* The selections tried: none, one provider, every provider.
Selections == {{}, {"Acme"}, Providers}

MisDroppable == {"RequestDate", "ContactNo", "ProviderName"}

CdrDroppable == {"Customer Number", "Call Status", "Call Start Time"}

PhoneIdle ==
    /\ raw = Null
    /\ key = <<>>
    /\ rekey = <<>>
    /\ phase = "idle"

\* if mis_file and cdr_files: the script has both inputs.
Init ==
    /\ PhoneIdle
    /\ PresetIdle
    /\ \/ \E k \in 1..MaxRows :
            \E leads \in LeadTables(k) :
                \E calls \in CallTables(MaxRows - k) :
                    /\ mis = [columns |-> Range(required_mis_cols),
                              rows |-> leads]
                    /\ cdr_files = TwoFiles(calls, Range(required_cdr_cols),
                                            Range(required_cdr_cols))
       \/ \E m \in SUBSET MisDroppable :
            \E c1, c2 \in SUBSET CdrDroppable :
                /\ mis = [columns |-> Range(required_mis_cols) \ m,
                          rows |-> SampleLeads]
                /\ cdr_files = TwoFiles(SampleCalls,
                                        Range(required_cdr_cols) \ c1,
                                        Range(required_cdr_cols) \ c2)
    /\ selected_providers = {}
    /\ pc = "start"
    /\ steps = <<>>
    /\ message = <<>>
    /\ mis_filtered = <<>>
    /\ cdr = [columns |-> {}, rows |-> <<>>]
    /\ final = <<>>
    /\ output = <<>>

\* Lines 62-73: the MIS file is read and its columns are checked.
ValidateMIS ==
    /\ pc = "start"
    /\ steps' = Append(steps, "validate_mis")
    /\ LET missing == FirstMissing(required_mis_cols, mis.columns)
       IN  IF missing # <<>>
           THEN /\ message' = Val([kind |-> "error", table |-> "MIS",
                                   column |-> missing[1]])
                /\ pc' = "stopped"
           ELSE /\ message' = message
                /\ pc' = "ui"
    /\ UNCHANGED <<phoneVars, presetVars, mis, cdr_files, selected_providers,
                   mis_filtered, cdr, final, output>>

InSelection(r) ==
    r.ProviderName # Null /\ r.ProviderName[1] \in selected_providers'

\* Lines 84-89 and 122-137: the provider selection (manual or from a preset),
\* the Analyze button, the empty-selection stop, the filter of the MIS rows
\* and their phone key.
Analyze ==
    /\ pc = "ui"
    /\ \E sel \in Selections : selected_providers' = sel
    /\ IF selected_providers' = {}
       THEN /\ message' = Val([kind |-> "warning", table |-> "none",
                               column |-> "none"])
            /\ pc' = "stopped"
            /\ UNCHANGED <<steps, mis_filtered>>
       ELSE /\ mis_filtered' =
                LET kept == SelectSeq(mis.rows, InSelection)
                IN  [i \in 1..Len(kept) |->
                        kept[i] @@ [phone |-> Val(clean_phone(kept[i].ContactNo))]]
            /\ steps' = steps \o <<"filter_mis", "clean_phone_mis">>
            /\ pc' = "cdr_check"
            /\ UNCHANGED message
    /\ UNCHANGED <<phoneVars, presetVars, mis, cdr_files, cdr, final, output>>

\* A plausible slip: the CDR check never stops the run.
ValidateCDRNeverStops ==
    /\ pc = "cdr_check"
    /\ cdr' = Concat(cdr_files)
    /\ steps' = Append(steps, "validate_cdr")
    /\ pc' = "analytics"
    /\ UNCHANGED <<phoneVars, presetVars, mis, cdr_files, selected_providers, message,
                   mis_filtered, final, output>>

\* Lines 140-154: the CDR files are read and combined, and the columns of the
\* combined table are checked.
ValidateCDR ==
    /\ pc = "cdr_check"
    /\ cdr' = Concat(cdr_files)
    /\ steps' = Append(steps, "validate_cdr")
    /\ LET missing == FirstMissing(required_cdr_cols, cdr'.columns)
       IN  IF missing # <<>>
           THEN /\ message' = Val([kind |-> "error", table |-> "CDR",
                                   column |-> missing[1]])
                /\ pc' = "stopped"
           ELSE /\ message' = message
                /\ pc' = "analytics"
    /\ UNCHANGED <<phoneVars, presetVars, mis, cdr_files, selected_providers,
                   mis_filtered, final, output>>

RECURSIVE ColumnSum(_, _)
\* final[column].sum(): missing cells are skipped
ColumnSum(rows, column) ==
    IF rows = <<>> THEN 0
    ELSE (IF Head(rows)[column] = Null THEN 0 ELSE Head(rows)[column][1])
         + ColumnSum(Tail(rows), column)

\* final["Disposition Name"].value_counts(): missing cells are not counted
value_counts(rows) ==
    LET names == {rows[i].Disposition_Name : i \in 1..Len(rows)} \ {Null}
    IN  {<<n[1], Cardinality({i \in 1..Len(rows) : rows[i].Disposition_Name = n})>> :
            n \in names}

\* Lines 204-244: the metrics, the disposition breakdown, the detailed
\* table and the download.
Display(rows) ==
    [total_leads |-> Len(rows),
     total_calls |-> ColumnSum(rows, "Total_Attempts"),
     connected_calls |-> ColumnSum(rows, "Connected_Attempts"),
     rate_defined |-> ColumnSum(rows, "Total_Attempts") > 0,
     dispo_summary |-> value_counts(rows),
     report |-> rows]

\* Lines 156-244: normalization of the CDR rows, dropna, the aggregates, the
\* merges, fillna, and the display of the result.
Analytics ==
    /\ pc = "analytics"
    /\ cdr' = [cdr EXCEPT !.rows = dropna(Normalize(cdr.rows))]
    /\ \E sorted \in cdr_sorted(cdr'.rows) :
            final' = Merged(mis_filtered, cdr'.rows, sorted)
    /\ output' = Val(Display(final'))
    /\ steps' = steps \o <<"normalize_cdr", "aggregate", "merge", "display">>
    /\ pc' = "done"
    /\ UNCHANGED <<phoneVars, presetVars, mis, cdr_files, selected_providers, message,
                   mis_filtered>>

Next == ValidateMIS \/ Analyze \/ ValidateCDR \/ Analytics

Spec == Init /\ [][Next]_vars

(***************************************************************************)
(* Preset management: lines 19-27 and 95-120                               *)
(***************************************************************************)
MaxPresets == 2

MaxNames == 3

\* The preset names typed: the empty text and MaxNames others.
PresetNames == {[j \in 1..i |-> "p"] : i \in 0..MaxNames}

\* What the multiselect can return: the chosen providers in the order chosen.
ProviderLists ==
    {<<>>} \cup {<<p>> : p \in Providers}
           \cup {l \in [1..2 -> Providers] : l[1] # l[2]}

PresetStores(n) ==
    UNION {[S -> ProviderLists] :
              S \in {T \in SUBSET (PresetNames \ {<<>>}) : Cardinality(T) <= n}}

\* A plausible slip: > instead of >=.
SaveRejectedOffByOne(store, name) ==
    Cardinality(DOMAIN store) > MaxPresets /\ name \notin DOMAIN store

\* len(presets) >= 2 and preset_name_input not in presets
SaveRejected(store, name) ==
    Cardinality(DOMAIN store) >= MaxPresets /\ name \notin DOMAIN store

PresetInit ==
    /\ PhoneIdle
    /\ RunIdle
    /\ presets \in PresetStores(MaxPresets)
    /\ preset_name_input = <<>>
    /\ preset_provider_input = <<>>
    /\ clicked = "none"
    /\ notice = "none"

\* Lines 103-112: "Save / Update Preset" with a name and a provider list in
\* the inputs; save_presets rewrites the whole file.
SavePreset ==
    /\ \E name \in PresetNames : preset_name_input' = name
    /\ \E list \in ProviderLists : preset_provider_input' = list
    /\ clicked' = "save"
    /\ IF preset_name_input' = <<>>
       THEN /\ notice' = "Enter preset name."
            /\ presets' = presets
       ELSE IF SaveRejected(presets, preset_name_input')
       THEN /\ notice' = "Maximum 2 presets allowed."
            /\ presets' = presets
       ELSE /\ notice' = "Preset saved."
            /\ presets' =
                [n \in DOMAIN presets \cup {preset_name_input'} |->
                    IF n = preset_name_input' THEN preset_provider_input'
                    ELSE presets[n]]
    /\ UNCHANGED <<phoneVars, runVars>>

\* Lines 115-120: "Delete Preset".
DeletePreset ==
    /\ \E name \in PresetNames : preset_name_input' = name
    /\ \E list \in ProviderLists : preset_provider_input' = list
    /\ clicked' = "delete"
    /\ IF preset_name_input' \in DOMAIN presets
       THEN /\ notice' = "Preset deleted."
            /\ presets' =
                [n \in DOMAIN presets \ {preset_name_input'} |-> presets[n]]
       ELSE /\ notice' = "none"
            /\ presets' = presets
    /\ UNCHANGED <<phoneVars, runVars>>

PresetNext == SavePreset \/ DeletePreset

SpecPreset == PresetInit /\ [][PresetNext]_vars

PhoneNext == Clean \/ Reclean

SpecPhone == PhoneInit /\ [][PhoneNext]_vars

(***************************************************************************)
(* Properties of a run                                                     *)
(***************************************************************************)
Selected(r) == r.ProviderName # Null /\ r.ProviderName[1] \in selected_providers

\* The surviving call rows with the phone key of final row i.
CallsOf(i) == {j \in 1..Len(cdr.rows) : cdr.rows[j].phone = final[i].phone}

\* C1: a run that passes validation with a non-empty selection ends with
\* exactly one final row per MIS row whose ProviderName is selected, in the
\* order of the MIS rows: the joins drop and duplicate no lead row.
C1_OneRowPerSelectedLead ==
    pc = "done" =>
        LET kept == SelectSeq(mis.rows, Selected)
        IN  /\ Len(final) = Len(kept)
            /\ \A i \in 1..Len(final) :
                    /\ final[i].ProviderName = kept[i].ProviderName
                    /\ final[i].ContactNo = kept[i].ContactNo

\* Two lead rows share a phone key that two surviving call rows share too.
C1_Witness ==
    /\ pc = "done"
    /\ Len(final) >= 2
    /\ final[1].phone = final[2].phone
    /\ Cardinality(CallsOf(1)) >= 2

\* C2: in the final table Total_Attempts is the number of surviving call
\* rows with the lead's phone key, and Connected_Attempts the number of
\* those whose Call Status is exactly "Answered".
C2_AttemptCounts ==
    pc = "done" =>
        \A i \in 1..Len(final) :
            /\ final[i].Total_Attempts = Val(Cardinality(CallsOf(i)))
            /\ final[i].Connected_Attempts =
                Val(Cardinality({j \in CallsOf(i) :
                                    cdr.rows[j].Call_Status = Val("Answered")}))

\* A lead with an "Answered" call and an "answered" call: only one counts.
C2_Witness ==
    /\ pc = "done"
    /\ \E i \in 1..Len(final) :
            /\ final[i].Total_Attempts = Val(2)
            /\ final[i].Connected_Attempts = Val(1)
            /\ \E j \in CallsOf(i) : cdr.rows[j].Call_Status = Val("answered")

\* C6: for a lead with surviving calls, the last disposition and the last
\* call status are those of one surviving call row of its key whose
\* timestamp is Last_Call_Date, the greatest timestamp of the key;
\* First_Call_Date is the least.
C6_LastCallRow ==
    pc = "done" =>
        \A i \in 1..Len(final) :
            CallsOf(i) # {} =>
                /\ \A j \in CallsOf(i) :
                        /\ final[i].First_Call_Date[1] <= cdr.rows[j].call_datetime[1]
                        /\ cdr.rows[j].call_datetime[1] <= final[i].Last_Call_Date[1]
                /\ \E j \in CallsOf(i) :
                        final[i].First_Call_Date = cdr.rows[j].call_datetime
                /\ \E j \in CallsOf(i) :
                        /\ cdr.rows[j].call_datetime = final[i].Last_Call_Date
                        /\ cdr.rows[j].Disposition_Name = final[i].Disposition_Name
                        /\ cdr.rows[j].Call_Status = final[i].Call_Status

\* A lead with an early call and two later calls of one timestamp that
\* differ in status.
C6_Witness ==
    /\ pc = "done"
    /\ \E i \in 1..Len(final) :
            /\ final[i].First_Call_Date # final[i].Last_Call_Date
            /\ \E j, k \in CallsOf(i) :
                    /\ cdr.rows[j].call_datetime = final[i].Last_Call_Date
                    /\ cdr.rows[k].call_datetime = final[i].Last_Call_Date
                    /\ cdr.rows[j].Call_Status # cdr.rows[k].Call_Status

\* C7: Total_Attempts = Connected_Attempts + NotConnected_Attempts in every
\* row of the final table, all three being numbers.
C7_Conservation ==
    pc = "done" =>
        \A i \in 1..Len(final) :
            /\ final[i].Total_Attempts # Null
            /\ final[i].Connected_Attempts # Null
            /\ final[i].NotConnected_Attempts # Null
            /\ final[i].Total_Attempts[1] =
                final[i].Connected_Attempts[1] + final[i].NotConnected_Attempts[1]

\* A lead with calls none of which is "Answered", beside a lead without calls.
C7_Witness ==
    /\ pc = "done"
    /\ \E i \in 1..Len(final) :
            /\ final[i].Total_Attempts = Val(2)
            /\ final[i].Connected_Attempts = Val(0)
            /\ final[i].NotConnected_Attempts = Val(2)
    /\ \E i \in 1..Len(final) : final[i].Total_Attempts = Val(0)

\* C3 as claimed: a lead without surviving calls has zero counts and the
\* text "No Call" as its disposition and its call status.
C3_NoCallText ==
    pc = "done" =>
        \A i \in 1..Len(final) :
            CallsOf(i) = {} =>
                /\ final[i].Total_Attempts = Val(0)
                /\ final[i].Connected_Attempts = Val(0)
                /\ final[i].NotConnected_Attempts = Val(0)
                /\ final[i].Disposition_Name = Val("No Call")
                /\ final[i].Call_Status = Val("No Call")

\* C3 as amended: a lead without surviving calls has zero counts, and its
\* disposition, call status and first and last call date are missing.
C3_UnmatchedDefaults ==
    pc = "done" =>
        \A i \in 1..Len(final) :
            CallsOf(i) = {} =>
                /\ final[i].Total_Attempts = Val(0)
                /\ final[i].Connected_Attempts = Val(0)
                /\ final[i].NotConnected_Attempts = Val(0)
                /\ final[i].Disposition_Name = Null
                /\ final[i].Call_Status = Null
                /\ final[i].First_Call_Date = Null
                /\ final[i].Last_Call_Date = Null

\* A lead without calls beside a lead with calls, while calls survive.
C3_Witness ==
    /\ pc = "done"
    /\ \E i \in 1..Len(final) : CallsOf(i) = {}
    /\ \E i \in 1..Len(final) : CallsOf(i) # {}

Complete(required, columns) == \A i \in 1..Len(required) : required[i] \in columns

\* col is the first column of required that columns lacks.
FirstAbsent(col, required, columns) ==
    \E i \in 1..Len(required) :
        /\ required[i] = col
        /\ col \notin columns
        /\ \A j \in 1..(i - 1) : required[j] \in columns

CombinedColumns == UNION {cdr_files[i].columns : i \in 1..Len(cdr_files)}

Names(table, required, columns) ==
    /\ message # <<>>
    /\ message[1].kind = "error"
    /\ message[1].table = table
    /\ FirstAbsent(message[1].column, required, columns)

Ended == pc \in {"stopped", "done"}

\* C4 as claimed: a run on a MIS table or a combined CDR table that lacks a
\* required column ends with the error that names the table and the first
\* missing column, and with nothing displayed.
C4_MissingColumnNamed ==
    Ended =>
        /\ ~Complete(required_mis_cols, mis.columns) =>
                Names("MIS", required_mis_cols, mis.columns) /\ output = <<>>
        /\ (Complete(required_mis_cols, mis.columns)
                /\ ~Complete(required_cdr_cols, CombinedColumns)) =>
                Names("CDR", required_cdr_cols, CombinedColumns) /\ output = <<>>

\* C4 as amended: the CDR error is reached only with a non-empty selection;
\* with an empty selection the run ends on the selection warning.  In every
\* case nothing is merged and nothing is displayed.
C4_MissingColumnNamedWhenSelected ==
    Ended =>
        /\ ~Complete(required_mis_cols, mis.columns) =>
                Names("MIS", required_mis_cols, mis.columns)
        /\ (Complete(required_mis_cols, mis.columns)
                /\ selected_providers # {}
                /\ ~Complete(required_cdr_cols, CombinedColumns)) =>
                Names("CDR", required_cdr_cols, CombinedColumns)
        /\ (~Complete(required_mis_cols, mis.columns)
                \/ ~Complete(required_cdr_cols, CombinedColumns)) =>
                (output = <<>> /\ final = <<>> /\ pc = "stopped")

\* The combined CDR table lacks two required columns and the run stopped on
\* the CDR error.
C4_Witness ==
    /\ pc = "stopped"
    /\ message # <<>>
    /\ message[1].table = "CDR"
    /\ Cardinality(Range(required_cdr_cols) \ CombinedColumns) >= 2

HasDigit(cell) == cell # Null /\ \E k \in 1..Len(cell[1]) : cell[1][k] \in Digits

\* A call row with a phone key and a timestamp.
Usable(r) ==
    /\ HasDigit(r.Customer_Number)
    /\ to_datetime(r.Call_Start_Date, r.Call_Start_Time) # Null

\* C5: a call row without a parseable phone key or without a parseable
\* timestamp is dropped before the aggregation: no such row survives, and
\* the attempts of every lead, the leads with an empty key included, count
\* only the usable call rows of its key.
C5_UnusableCallsDropped ==
    pc = "done" =>
        /\ \A j \in 1..Len(cdr.rows) : Usable(cdr.rows[j])
        /\ \A i \in 1..Len(final) :
                final[i].Total_Attempts =
                    Val(Cardinality(
                        {j \in 1..Len(Concat(cdr_files).rows) :
                            /\ Usable(Concat(cdr_files).rows[j])
                            /\ Val(clean_phone(
                                    Concat(cdr_files).rows[j].Customer_Number))
                               = final[i].phone}))

Performed(step) == \E i \in 1..Len(steps) : steps[i] = step

\* C9 as claimed: the MIS rows are filtered and their phones normalized only
\* after the CDR column check has passed.
C9_ValidationBeforeMisTransform ==
    (Performed("filter_mis") \/ Performed("clean_phone_mis")) =>
        /\ Performed("validate_cdr")
        /\ Complete(required_cdr_cols, CombinedColumns)

\* C9 as amended: the MIS column check is the first step of every run and
\* passes before the MIS rows are filtered; the CDR column check passes
\* before any step on the CDR table, the merge and the display; the filter
\* of the MIS rows comes before the CDR check, but nothing is merged or
\* displayed unless both checks passed.
C9_ValidationBeforeOutput ==
    /\ steps # <<>> => steps[1] = "validate_mis"
    /\ Performed("filter_mis") => Complete(required_mis_cols, mis.columns)
    /\ \A i \in 1..Len(steps) :
            steps[i] \in {"normalize_cdr", "aggregate", "merge", "display"} =>
                /\ \E j \in 1..(i - 1) : steps[j] = "validate_cdr"
                /\ Complete(required_cdr_cols, CombinedColumns)
    /\ (output # <<>> \/ final # <<>>) =>
            /\ Performed("validate_cdr")
            /\ Complete(required_mis_cols, mis.columns)
            /\ Complete(required_cdr_cols, CombinedColumns)

\* The MIS rows were filtered, then the CDR check stopped the run.
C9_Witness ==
    /\ pc = "stopped"
    /\ Performed("filter_mis")
    /\ mis_filtered # <<>>
    /\ Performed("validate_cdr")
    /\ ~Complete(required_cdr_cols, CombinedColumns)
    /\ output = <<>>

(***************************************************************************)
(* Properties of clean_phone                                               *)
(***************************************************************************)
IsDigit(c) == c \in Digits

EndsWith(t, suffix) ==
    /\ Len(t) >= Len(suffix)
    /\ SubSeq(t, Len(t) - Len(suffix) + 1, Len(t)) = suffix

DropLast(t, n) == SubSeq(t, 1, Len(t) - n)

LastTen(t) == [i \in 1..(IF Len(t) < 10 THEN Len(t) ELSE 10) |->
                  t[Len(t) - (IF Len(t) < 10 THEN Len(t) ELSE 10) + i]]

\* C8 as claimed: the key of a raw text is the last 10 of the digits left
\* when one trailing ".0" and every non-digit are removed.
C8_LastTenDigits ==
    (phase \notin {"idle", "raw"} /\ raw # Null) =>
        key = LastTen(SelectSeq(
                  IF EndsWith(raw[1], <<".", "0">>) THEN DropLast(raw[1], 2)
                  ELSE raw[1],
                  IsDigit))

\* C8 as amended: the ".0" removed is the one that ends the text or that
\* stands right before a newline ending the text.  The key of a text of 10
\* or more digits is its last 10 characters, and the key of a key is the
\* key itself.
C8_LastTenDigitsNewline ==
    /\ (phase \notin {"idle", "raw"} /\ raw # Null) =>
            /\ key = LastTen(SelectSeq(
                          IF EndsWith(raw[1], <<".", "0">>)
                          THEN DropLast(raw[1], 2)
                          ELSE IF EndsWith(raw[1], <<".", "0", "\n">>)
                          THEN DropLast(raw[1], 3)
                          ELSE raw[1],
                          IsDigit))
            /\ (((\A i \in 1..Len(raw[1]) : IsDigit(raw[1][i]))
                    /\ Len(raw[1]) >= 10)
                    => key = SubSeq(raw[1], Len(raw[1]) - 9, Len(raw[1])))
    /\ (phase = "reclean" => rekey = key)

\* A text of more than 10 digits with other characters and a ".0" before a
\* final newline, normalized twice.
C8_Witness ==
    /\ phase = "reclean"
    /\ raw # Null
    /\ EndsWith(raw[1], <<".", "0", "\n">>)
    /\ Len(SelectSeq(raw[1], IsDigit)) > 10
    /\ \E i \in 1..Len(raw[1]) : raw[1][i] = "-"
    /\ Len(key) = 10

(***************************************************************************)
(* Properties of the preset store                                          *)
(***************************************************************************)
\* C10: from a store of at most 2 presets, no sequence of saves and deletes
\* leaves more than 2 presets; a save of a new name on a full store, a save
\* of the empty name and a delete of an unknown name leave the store as it
\* is; a save of a known name replaces the list of that preset alone.
C10_AtMostTwoPresets ==
    /\ [](Cardinality(DOMAIN presets) <= 2)
    /\ [][
          /\ (clicked' = "save" /\ preset_name_input' = <<>>)
                => presets' = presets
          /\ (clicked' = "save" /\ preset_name_input' \notin DOMAIN presets
                    /\ Cardinality(DOMAIN presets) = 2)
                => presets' = presets
          /\ (clicked' = "save" /\ preset_name_input' \in DOMAIN presets)
                => (/\ DOMAIN presets' = DOMAIN presets
                    /\ presets'[preset_name_input'] = preset_provider_input'
                    /\ \A n \in DOMAIN presets \ {preset_name_input'} :
                            presets'[n] = presets[n])
          /\ (clicked' = "delete" /\ preset_name_input' \notin DOMAIN presets)
                => presets' = presets
       ]_presetVars

\* A save of a third name was refused on a store of two presets.
C10_Witness ==
    /\ clicked = "save"
    /\ notice = "Maximum 2 presets allowed."
    /\ Cardinality(DOMAIN presets) = 2
    /\ preset_name_input \notin DOMAIN presets
    /\ preset_name_input # <<>>

====
